---- MODULE Spec2Model ----
(***************************************************************************)
(* tesuji: container_io.hpp, the Python-like ostream output of containers. *)
(* A text is a sequence of characters; a character is a one-element        *)
(* string, NUL stands for the character '\0'.  Char and Char2 are both     *)
(* char (narrow streams and narrow strings).                               *)
(***************************************************************************)
EXTENDS Integers, Sequences, FiniteSets, TLC

\* ------------------------------------------------------------------ bounds
MaxLen == 3        \* longest container given to a formatting call
MaxStrLen == 3     \* longest enumerated text given to decorate_string

\* -------------------------------------------------------------- characters
BS == "\\"
SQ == "'"
DQ == "\""
NUL == "NUL"
NL == "\n"

Alphabet == {"a", SQ, BS, DQ, "|", NL, NUL}

RECURSIVE TextsOfLen(_)
TextsOfLen(n) ==
    IF n = 0 THEN {<<>>}
    ELSE {<<c>> \o t : c \in Alphabet, t \in TextsOfLen(n - 1)}

Texts == UNION {TextsOfLen(n) : n \in 0..MaxStrLen}

\* ------------------------------------------------------- library behaviour
\* basic_string::c_str() handed to operator<<(ostream&, const char*):
\* the characters up to, not including, the first NUL
RECURSIVE c_str(_)
c_str(t) ==
    IF t = <<>> \/ Head(t) = NUL THEN <<>>
    ELSE <<Head(t)>> \o c_str(Tail(t))

\* operator<<(ostream&, int)
RECURSIVE Digits(_)
Digits(n) ==
    IF n < 10 THEN <<(<<"0","1","2","3","4","5","6","7","8","9">>)[n + 1]>>
    ELSE Digits(n \div 10) \o Digits(n % 10)

IntText(n) == IF n < 0 THEN <<"-">> \o Digits(0 - n) ELSE Digits(n)

\* operator<<(ostream&, bool) under the stream's boolalpha flag
BoolText(b, boolalphaFlag) ==
    IF boolalphaFlag
    THEN (IF b THEN <<"t","r","u","e">> ELSE <<"f","a","l","s","e">>)
    ELSE (IF b THEN <<"1">> ELSE <<"0">>)

\* the literal a regular expression made only of ordinary characters and
\* identity escapes matches: \c matches c, c matches c
RECURSIVE RegexLiteral(_)
RegexLiteral(re) ==
    IF re = <<>> THEN <<>>
    ELSE IF Head(re) = BS /\ Len(re) >= 2
         THEN <<re[2]>> \o RegexLiteral(SubSeq(re, 3, Len(re)))
         ELSE <<Head(re)>> \o RegexLiteral(Tail(re))

\* std::basic_regex construction throws regex_error (error_escape) when the
\* expression ends in a lone backslash
RECURSIVE RegexThrows(_)
RegexThrows(re) ==
    IF re = <<>> THEN FALSE
    ELSE IF Head(re) = BS
         THEN (Len(re) = 1 \/ RegexThrows(SubSeq(re, 3, Len(re))))
         ELSE RegexThrows(Tail(re))

\* the ECMAScript format string: $& is the match, anything else is literal
RECURSIVE FormatMatch(_, _)
FormatMatch(fmt, match) ==
    IF fmt = <<>> THEN <<>>
    ELSE IF Len(fmt) >= 2 /\ fmt[1] = "$" /\ fmt[2] = "&"
         THEN match \o FormatMatch(SubSeq(fmt, 3, Len(fmt)), match)
         ELSE <<Head(fmt)>> \o FormatMatch(Tail(fmt), match)

IsPrefix(p, t) == Len(p) <= Len(t) /\ SubSeq(t, 1, Len(p)) = p

\* std::regex_replace for a literal expression: the leftmost matches, not
\* overlapping, each replaced by the formatted match
RECURSIVE regex_replace(_, _, _)
regex_replace(value, lit, fmt) ==
    IF lit = <<>>
    THEN IF value = <<>> THEN FormatMatch(fmt, <<>>)
         ELSE FormatMatch(fmt, <<>>) \o <<Head(value)>>
                  \o regex_replace(Tail(value), lit, fmt)
    ELSE IF value = <<>> THEN <<>>
    ELSE IF IsPrefix(lit, value)
         THEN FormatMatch(fmt, lit)
                  \o regex_replace(SubSeq(value, Len(lit) + 1, Len(value)), lit, fmt)
         ELSE <<Head(value)>> \o regex_replace(Tail(value), lit, fmt)

\* ------------------------------------------------------------ regex_escape
convert_string(value) == [i \in 1..Len(value) |-> value[i]]

\* the class [-[\]{}()*+?.,\^$|#\s]: \] and \^ are escapes inside the class,
\* so the backslash itself is not a member
specialChars ==
    {"-", "[", "]", "{", "}", "(", ")", "*", "+", "?", ".", ",", "^", "$",
     "|", "#", " ", "\t", NL, "\r", "\f"}

regexReplacement == <<BS, "$", "&">>

RECURSIVE regex_escape(_)
regex_escape(value) ==
    IF value = <<>> THEN <<>>
    ELSE (IF Head(value) \in specialChars
          THEN FormatMatch(regexReplacement, <<Head(value)>>)
          ELSE <<Head(value)>>) \o regex_escape(Tail(value))

\* --------------------------------------------------------- decorate_string
escapeRe == <<BS, BS>>

stringReplacement == <<BS, "$", "&">>

\* line 120: the expression the delimiter is compiled from
escapedStringDelimiter(stringDelimiter) ==
    regex_escape(convert_string(stringDelimiter))

\* lines 127-128: backslashes first, the delimiter second
EscapedValue(value, stringDelimiter) ==
    regex_replace(
        regex_replace(value, RegexLiteral(escapeRe), stringReplacement),
        RegexLiteral(escapedStringDelimiter(stringDelimiter)),
        stringReplacement)

\* line 131: os << value.c_str()
WrittenValue(value) == c_str(value)

\* lines 130-132: what decorate_string appends to the stream
decorate_string(value, stringDelimiter) ==
    c_str(stringDelimiter)
        \o WrittenValue(EscapedValue(value, stringDelimiter))
        \o c_str(stringDelimiter)

\* ------------------------------------------------------------------ values
\* A value is a record [type, n, text, elems]: n for int and bool, text for
\* the string kinds, elems (in iteration order) for containers and tuples.
SeqKinds == {"vector", "deque", "forward_list", "list"}
SetKinds == {"set", "multiset", "unordered_set", "unordered_multiset"}
MapKinds == {"map", "multimap", "unordered_map", "unordered_multimap"}

MkInt(n) == [type |-> "int", n |-> n, text |-> <<>>, elems |-> <<>>]
MkBool(b) == [type |-> "bool", n |-> IF b THEN 1 ELSE 0, text |-> <<>>, elems |-> <<>>]
MkString(t) == [type |-> "string", n |-> 0, text |-> t, elems |-> <<>>]
MkCharPtr(t) == [type |-> "const char*", n |-> 0, text |-> t, elems |-> <<>>]
MkStringView(t) == [type |-> "string_view", n |-> 0, text |-> t, elems |-> <<>>]
Container(kind, es) == [type |-> kind, n |-> 0, text |-> <<>>, elems |-> es]
Pair(k, v) == Container("pair", <<k, v>>)

is_string_like_v_and_view(type) ==
    type \in {"string", "const char*", "string_view"}

\* lines 94-104
is_string_like_v(type) == type \in {"string", "const char*"}

\* std::string(value) of a const char*: the characters before the terminator
StringOf(v) == IF v.type = "const char*" THEN c_str(v.text) ELSE v.text

\* ------------------------------------------------- default configurations
\* lines 327, 345
SeqContainerDelimiters == <<(<<"[">>), (<<"]">>)>>
\* line 351
TupleContainerDelimiters == <<(<<"(">>), (<<")">>)>>
\* line 366
AssocContainerDelimiters == <<(<<"{">>), (<<"}">>)>>
DefaultStringDelimiter == <<SQ>>
DefaultValueSeparator == <<",", " ">>
DefaultKeyValueSeparator == <<":", " ">>

Config(cd, sd, vs, kvs) ==
    [containerDelimiters |-> cd, stringDelimiter |-> sd,
     valueSeparator |-> vs, keyValueSeparator |-> kvs]

\* the configuration each operator<< overload passes on
DefaultConfig(type) ==
    Config(IF type \in MapKinds THEN AssocContainerDelimiters
           ELSE IF type \in {"tuple", "pair"} THEN TupleContainerDelimiters
           ELSE SeqContainerDelimiters,
           DefaultStringDelimiter, DefaultValueSeparator,
           DefaultKeyValueSeparator)

\* --------------------------------------------------------------- decorate
SeparatorBeforeAlways(printValueSeparator, valueSeparator) ==
    c_str(valueSeparator)

\* lines 197-199, 224-226, 250-252, 295-297
SeparatorBefore(printValueSeparator, valueSeparator) ==
    IF printValueSeparator THEN c_str(valueSeparator) ELSE <<>>

\* lines 195, 220, 276, 293: os << containerDelimiters.first.c_str()
ContainerOpen(containerDelimiters) == c_str(containerDelimiters[1])

ContainerCloseFirst(containerDelimiters) == c_str(containerDelimiters[1])

\* lines 208, 238, 278, 314: os << containerDelimiters.second.c_str()
ContainerClose(containerDelimiters) == c_str(containerDelimiters[2])

RECURSIVE WriteValue(_, _)
RECURSIVE decorate(_, _, _)
RECURSIVE decorate_assoc(_, _, _)

\* lines 202-206: the string-like dispatch on one element
DecorateElement(value, stringDelimiter, boolalphaFlag) ==
    IF is_string_like_v(value.type)
    THEN decorate_string(StringOf(value), stringDelimiter)
    ELSE WriteValue(value, boolalphaFlag)

ElementAtReversed(elems, i) == elems[Len(elems) + 1 - i]

\* lines 196, 224, 254, 294: the i-th element the iteration produces
\* (range-for over the container, std::get<N> on a tuple)
ElementAt(elems, i) == elems[i]

\* lines 196-207 and 223-236: the loop over the elements from index i on
RECURSIVE DecorateLoop(_, _, _, _, _)
DecorateLoop(elems, i, printValueSeparator, cfg, boolalphaFlag) ==
    IF i > Len(elems) THEN <<>>
    ELSE SeparatorBefore(printValueSeparator, cfg.valueSeparator)
            \o DecorateElement(ElementAt(elems, i), cfg.stringDelimiter, boolalphaFlag)
            \o DecorateLoop(elems, i + 1, TRUE, cfg, boolalphaFlag)

TupleHasNextOffByOne(N, size) == N + 2 < size

\* line 262: if constexpr(N + 1 < sizeof...(Args))
TupleHasNext(N, size) == N + 1 < size

\* lines 244-267: element N of the tuple and, while the tuple has a next
\* element, the rest
RECURSIVE decorate_tuple(_, _, _, _, _)
decorate_tuple(N, elems, cfg, printValueSeparator, boolalphaFlag) ==
    SeparatorBefore(printValueSeparator, cfg.valueSeparator)
        \o DecorateElement(ElementAt(elems, N + 1), cfg.stringDelimiter, boolalphaFlag)
        \o (IF TupleHasNext(N, Len(elems))
            THEN decorate_tuple(N + 1, elems, cfg, TRUE, boolalphaFlag)
            ELSE <<>>)

\* lines 187-211 (any range), 214-241 (std::array), 270-281 (std::tuple)
decorate(container, cfg, boolalphaFlag) ==
    ContainerOpen(cfg.containerDelimiters)
        \o (IF container.type = "tuple"
            THEN decorate_tuple(0, container.elems, cfg, FALSE, boolalphaFlag)
            ELSE DecorateLoop(container.elems, 1, FALSE, cfg, boolalphaFlag))
        \o ContainerClose(cfg.containerDelimiters)

DecorateEntryValueSeparator(entry, cfg, boolalphaFlag) ==
    DecorateElement(entry.elems[1], cfg.stringDelimiter, boolalphaFlag)
        \o c_str(cfg.valueSeparator)
        \o DecorateElement(entry.elems[2], cfg.stringDelimiter, boolalphaFlag)

\* lines 300-312: one entry, key and value dispatched separately
DecorateEntry(entry, cfg, boolalphaFlag) ==
    DecorateElement(entry.elems[1], cfg.stringDelimiter, boolalphaFlag)
        \o c_str(cfg.keyValueSeparator)
        \o DecorateElement(entry.elems[2], cfg.stringDelimiter, boolalphaFlag)

\* lines 294-313
RECURSIVE DecorateAssocLoop(_, _, _, _, _)
DecorateAssocLoop(elems, i, printValueSeparator, cfg, boolalphaFlag) ==
    IF i > Len(elems) THEN <<>>
    ELSE SeparatorBefore(printValueSeparator, cfg.valueSeparator)
            \o DecorateEntry(ElementAt(elems, i), cfg, boolalphaFlag)
            \o DecorateAssocLoop(elems, i + 1, TRUE, cfg, boolalphaFlag)

\* lines 284-317
decorate_assoc(container, cfg, boolalphaFlag) ==
    ContainerOpen(cfg.containerDelimiters)
        \o DecorateAssocLoop(container.elems, 1, FALSE, cfg, boolalphaFlag)
        \o ContainerClose(cfg.containerDelimiters)

\* lines 323-373: operator<< of a container, tuple, pair or map
OperatorShift(container, boolalphaFlag) ==
    IF container.type \in MapKinds
    THEN decorate_assoc(container, DefaultConfig(container.type), boolalphaFlag)
    ELSE IF container.type = "pair"
    THEN decorate(Container("tuple", container.elems),
                  DefaultConfig("tuple"), boolalphaFlag)
    ELSE decorate(container, DefaultConfig(container.type), boolalphaFlag)

\* os << value of line 205 for a value that is not string-like
WriteValue(value, boolalphaFlag) ==
    CASE value.type = "int" -> IntText(value.n)
      [] value.type = "bool" -> BoolText(value.n = 1, boolalphaFlag)
      [] value.type = "string_view" -> value.text
      [] OTHER -> OperatorShift(value, boolalphaFlag)

\* ------------------------------------------------------------------ inputs
\* the element values the formatted containers are built from, one set per
\* element type (a container holds elements of one type)
IntValues == {MkInt(n) : n \in {1, 2, 3}}
BoolValues == {MkBool(b) : b \in BOOLEAN}
StringValues ==
    {MkString(t) : t \in {<<"a">>, <<"i", "t", SQ, "s">>,
                          <<"a", BS, "b">>, <<"a", NUL, "b">>}}
CharPtrValues == {MkCharPtr(t) : t \in {<<"f", "o", "o">>, <<"i", "t", SQ, "s">>}}
StringViewValues == {MkStringView(t) : t \in {<<"x", SQ, "y">>, <<BS, ",", " ">>}}
InnerIntVectors ==
    {Container("vector", es) :
        es \in {<<>>, <<MkInt(1)>>, <<MkInt(1), MkInt(2)>>}}
InnerStringVectors ==
    {Container("vector", es) :
        es \in {<<MkString(<<"a">>)>>,
                <<MkString(<<"i", "t", SQ, "s">>), MkString(<<"b">>)>>}}
InnerIntSets == {Container("set", es) : es \in {<<MkInt(2)>>, <<MkInt(1), MkInt(2)>>}}
InnerMaps ==
    {Container("map", <<Pair(MkString(<<"a">>), MkInt(1))>>)}

ScalarTypes ==
    {IntValues, BoolValues, StringValues, CharPtrValues, StringViewValues}
NestedTypes == {InnerIntVectors, InnerStringVectors, InnerIntSets, InnerMaps}
ElementTypes == ScalarTypes \cup NestedTypes

SeqsUpTo(S, n) == UNION {[1..k -> S] : k \in 0..n}

\* std::less on the element types the ordered containers are used with
CharOrder ==
    <<NUL, NL, DQ, SQ, BS, "a", "b", "f", "i", "o", "s", "t", "x", "y", "|">>
CharCode(c) == CHOOSE i \in 1..Len(CharOrder) : CharOrder[i] = c

RECURSIVE TextLess(_, _)
TextLess(t, u) ==
    IF u = <<>> THEN FALSE
    ELSE IF t = <<>> THEN TRUE
    ELSE IF Head(t) = Head(u) THEN TextLess(Tail(t), Tail(u))
    ELSE CharCode(Head(t)) < CharCode(Head(u))

Less(v, w) ==
    IF v.type \in {"int", "bool"} THEN v.n < w.n ELSE TextLess(v.text, w.text)

\* the iteration orders a container of the given kind can have: sorted for
\* the ordered ones, equal keys adjacent for the unordered ones
Ordered(kind) == kind \in {"set", "multiset", "map", "multimap"}
Unique(kind) == kind \in {"set", "unordered_set", "map", "unordered_map"}
KeyOf(kind, e) == IF kind \in MapKinds THEN e.elems[1] ELSE e
IterationOrder(kind, es) ==
    /\ Ordered(kind) =>
          /\ \A i \in 1..Len(es) : KeyOf(kind, es[i]).type
                 \in {"int", "bool", "string", "string_view"}
          /\ \A i \in 1..(Len(es) - 1) :
                 ~Less(KeyOf(kind, es[i + 1]), KeyOf(kind, es[i]))
    /\ Unique(kind) =>
          \A i, j \in 1..Len(es) :
              i < j => KeyOf(kind, es[i]) # KeyOf(kind, es[j])
    /\ (kind \in SetKinds \cup MapKinds) =>
          \A i, j, k \in 1..Len(es) :
              (i < j /\ j < k /\ KeyOf(kind, es[i]) = KeyOf(kind, es[k]))
                  => KeyOf(kind, es[j]) = KeyOf(kind, es[i])

HomogeneousSeqs == UNION {SeqsUpTo(T, MaxLen) : T \in ElementTypes}

RangeContainers ==
    {Container(kind, es) :
        kind \in SeqKinds \cup SetKinds \cup {"array"}, es \in HomogeneousSeqs}

\* the entry types of the maps: key type x mapped type
MapKeyTypes ==
    {{MkInt(1), MkInt(2)},
     {MkString(<<"a">>), MkString(<<"b">>), MkString(<<"i", "t", SQ, "s">>)}}
MapValueTypes ==
    {{MkInt(1), MkInt(2)}, {MkString(<<"b">>), MkString(<<SQ>>)},
     {MkStringView(<<"x", SQ, "y">>)}, {Container("vector", <<MkInt(1), MkInt(2)>>)}}
EntryTypes == {{Pair(k, v) : k \in K, v \in V} : K \in MapKeyTypes, V \in MapValueTypes}

MapContainers ==
    {Container(kind, es) :
        kind \in MapKinds, es \in UNION {SeqsUpTo(T, MaxLen) : T \in EntryTypes}}

TupleElements ==
    {MkInt(1), MkInt(12), MkCharPtr(<<"f", "o", "o">>), MkString(<<"i", "t", SQ, "s">>),
     MkString(<<"a", NUL, "b">>), MkBool(TRUE), MkBool(FALSE),
     MkStringView(<<"x", SQ, "y">>),
     Container("vector", <<MkInt(1), MkInt(2)>>)}

\* a tuple has at least one element: decorate_tuple<0> reads std::get<0>
TupleContainers ==
    {Container("tuple", es) : es \in SeqsUpTo(TupleElements, MaxLen) \ {<<>>}}

PairContainers == {Pair(k, v) : k \in TupleElements, v \in TupleElements}

\* configurations handed to detail::decorate and detail::decorate_assoc
CustomConfigs ==
    {Config(<<(<<"<">>), (<<">">>)>>, <<DQ>>, <<";", " ">>, <<"=">>),
     Config(<<(<<"(">>), (<<")">>)>>, <<"|">>, <<",">>, <<":">>)}

\* delimiters handed to detail::decorate_string
StringDelimiters == {<<SQ>>, <<DQ>>, <<"|">>, <<BS>>}

Call(op, value, cfg) == [op |-> op, value |-> value, cfg |-> cfg]

Calls ==
    {Call("operator<<", c, DefaultConfig(c.type)) :
        c \in {x \in RangeContainers \cup MapContainers :
                  IterationOrder(x.type, x.elems)}
              \cup TupleContainers \cup PairContainers}
    \cup {Call("decorate", c, cfg) :
            c \in {x \in RangeContainers : IterationOrder(x.type, x.elems)}
                  \cup TupleContainers,
            cfg \in CustomConfigs}
    \cup {Call("decorate_assoc", c, cfg) :
            c \in {x \in MapContainers : IterationOrder(x.type, x.elems)},
            cfg \in CustomConfigs}
    \cup {Call("decorate_string", MkString(t),
               Config(<<(<<>>), (<<>>)>>, d, <<>>, <<>>)) :
            t \in Texts \cup {<<"i", "t", SQ, "s">>}, d \in StringDelimiters}

\* ------------------------------------------------------------------- state
VARIABLES
    call,        \* the formatting call of this run: entry point and arguments
    pc,          \* "ready" before the call, "done" after it, "threw"
    os,          \* the text written to the output stream
    boolalpha    \* the stream's std::ios_base::boolalpha flag

\* container_io.hpp, a sequence of decorate_string calls in one program
VARIABLES
    regexes,     \* decorate_string's regex objects: the two statics, delimRe
    log          \* the calls made so far, each with the text it wrote

\* container_io.hpp, formatting calls running in several threads
VARIABLES
    statics,     \* the function-local statics of decorate_string, shared
    threads      \* per thread: its call, its position and its own stream

\* timed.hpp, durationToHumanString
VARIABLES
    duration,    \* the argument
    human        \* the returned text

\* timed.hpp, block, call and calls
VARIABLES
    now,         \* high_resolution_clock::now(), as time since its epoch
    indent,      \* block<IndentFactor>::indent, one per instantiation
    alive,       \* the blocks constructed and not yet destroyed, innermost last
    cout,        \* the lines written to std::cout
    printed,     \* for each line of cout: the block that wrote it
    tcall,       \* the call() in progress
    tcalls       \* the calls() in progress

\* tracked.hpp
VARIABLES
    currentCounter,  \* tracked_base::currentCounter
    m_allocs,        \* tracked_base::allocs.m_allocs
    objects,         \* the B and D objects alive, by address
    trackedOut,      \* the text written to std::cout
    ended,           \* the program has ended, allocs is destroyed
    mainLen,         \* how much of trackedOut was written before the end
    history,         \* the expressions the program has evaluated
    freed,           \* the addresses handed to free
    deleteCalls      \* the calls of delete_: address, liveness, value returned

fmtVars == <<call, pc, os, boolalpha>>
seqVars == <<regexes, log>>
thrVars == <<statics, threads>>
durVars == <<duration, human>>
timedVars == <<now, indent, alive, cout, printed, tcall, tcalls>>
trackVars ==
    <<currentCounter, m_allocs, objects, trackedOut, ended, mainLen, history,
      freed, deleteCalls>>

vars == <<fmtVars, seqVars, thrVars, durVars, timedVars, trackVars>>

\* the parts of the library a run does not use stay as they are
FmtIdle == call = "none" /\ pc = "off" /\ os = <<>> /\ boolalpha = FALSE
SeqIdle == regexes = "none" /\ log = <<>>
ThrIdle == statics = "none" /\ threads = <<>>
DurIdle == duration = "none" /\ human = "none"
TimedIdle ==
    /\ now = 0 /\ indent = <<>> /\ alive = <<>> /\ cout = <<>> /\ printed = <<>>
    /\ tcall = "none" /\ tcalls = "none"
TrackIdle ==
    /\ currentCounter = 0 /\ m_allocs = <<>> /\ objects = <<>>
    /\ trackedOut = <<>> /\ ended = FALSE /\ mainLen = 0 /\ history = <<>>
    /\ freed = {} /\ deleteCalls = <<>>

notFmt == <<seqVars, thrVars, durVars, timedVars, trackVars>>

\* a fresh stream: nothing written, boolalpha clear
Init ==
    /\ call \in Calls
    /\ pc = "ready"
    /\ os = <<>>
    /\ boolalpha = FALSE
    /\ SeqIdle /\ ThrIdle /\ DurIdle /\ TimedIdle /\ TrackIdle

\* os << std::boolalpha, the caller's choice before formatting
SetBoolalpha ==
    /\ pc = "ready"
    /\ ~boolalpha
    /\ boolalpha' = TRUE
    /\ UNCHANGED <<call, pc, os>>
    /\ UNCHANGED notFmt

Written(text) ==
    /\ os' = os \o text
    /\ pc' = "done"
    /\ UNCHANGED <<call, boolalpha>>
    /\ UNCHANGED notFmt

\* lines 323-339: operator<< of vector, deque, forward_list, list, set,
\* multiset, unordered_set, unordered_multiset
ShiftContainer ==
    /\ pc = "ready"
    /\ call.op = "operator<<"
    /\ call.value.type \in SeqKinds \cup SetKinds
    /\ Written(OperatorShift(call.value, boolalpha))

\* lines 342-346
ShiftArray ==
    /\ pc = "ready"
    /\ call.op = "operator<<"
    /\ call.value.type = "array"
    /\ Written(OperatorShift(call.value, boolalpha))

\* lines 348-352
ShiftTuple ==
    /\ pc = "ready"
    /\ call.op = "operator<<"
    /\ call.value.type = "tuple"
    /\ Written(OperatorShift(call.value, boolalpha))

\* lines 355-359
ShiftPair ==
    /\ pc = "ready"
    /\ call.op = "operator<<"
    /\ call.value.type = "pair"
    /\ Written(OperatorShift(call.value, boolalpha))

\* lines 362-373
ShiftAssoc ==
    /\ pc = "ready"
    /\ call.op = "operator<<"
    /\ call.value.type \in MapKinds
    /\ Written(OperatorShift(call.value, boolalpha))

\* detail::decorate called with the caller's configuration
CallDecorate ==
    /\ pc = "ready"
    /\ call.op = "decorate"
    /\ Written(decorate(call.value, call.cfg, boolalpha))

\* detail::decorate_assoc called with the caller's configuration
CallDecorateAssoc ==
    /\ pc = "ready"
    /\ call.op = "decorate_assoc"
    /\ Written(decorate_assoc(call.value, call.cfg, boolalpha))

\* detail::decorate_string: line 121 throws before anything is written
CallDecorateString ==
    /\ pc = "ready"
    /\ call.op = "decorate_string"
    /\ IF RegexThrows(escapedStringDelimiter(call.cfg.stringDelimiter))
       THEN /\ pc' = "threw"
            /\ UNCHANGED <<call, os, boolalpha>>
            /\ UNCHANGED notFmt
       ELSE Written(decorate_string(call.value.text, call.cfg.stringDelimiter))

Next ==
    \/ SetBoolalpha
    \/ ShiftContainer
    \/ ShiftArray
    \/ ShiftTuple
    \/ ShiftPair
    \/ ShiftAssoc
    \/ CallDecorate
    \/ CallDecorateAssoc
    \/ CallDecorateString

Spec == Init /\ [][Next]_vars

\* ------------------------------------------------- what the claims refer to
RECURSIVE Join(_, _)
Join(parts, sep) ==
    IF parts = <<>> THEN <<>>
    ELSE IF Len(parts) = 1 THEN parts[1]
    ELSE parts[1] \o sep \o Join(Tail(parts), sep)

RECURSIVE CountOcc(_, _)
CountOcc(text, pat) ==
    IF Len(text) < Len(pat) THEN 0
    ELSE IF IsPrefix(pat, text)
         THEN 1 + CountOcc(SubSeq(text, Len(pat) + 1, Len(text)), pat)
         ELSE CountOcc(Tail(text), pat)

RECURSIVE Keep(_, _)
Keep(text, dropped) ==
    IF text = <<>> THEN <<>>
    ELSE (IF Head(text) \in dropped THEN <<>> ELSE <<Head(text)>>)
            \o Keep(Tail(text), dropped)

Done(op) == pc = "done" /\ call.op = op

Elems == call.value.elems

\* the text of each element of the formatted container, in iteration order
ElementTexts ==
    [i \in 1..Len(Elems) |->
        DecorateElement(Elems[i], call.cfg.stringDelimiter, boolalpha)]

\* C1: a sequence container written with the default operator<< is "[",
\* its elements with ", " before every element but the first, then "]";
\* with elements whose text holds no separator there are len - 1 separators
C1_SequenceFormat ==
    (Done("operator<<") /\ call.value.type \in SeqKinds \cup {"array"}) =>
        /\ Head(os) = "[" /\ os[Len(os)] = "]"
        /\ os = <<"[">> \o Join(ElementTexts, <<",", " ">>) \o <<"]">>
        /\ (\A i \in 1..Len(Elems) : Elems[i].type = "int") =>
              CountOcc(os, <<",", " ">>)
                  = (IF Elems = <<>> THEN 0 ELSE Len(Elems) - 1)

C1_Witness ==
    /\ Done("operator<<")
    /\ call.value = Container("vector", <<MkInt(1), MkInt(2), MkInt(3)>>)
    /\ os = <<"[", "1", ",", " ", "2", ",", " ", "3", "]">>

\* C2: a mapping written with the default operator<< is "{", one entry per
\* element joined by ", ", then "}"; an entry is key text, ": ", value text
C2_MappingFormat ==
    (Done("operator<<") /\ call.value.type \in MapKinds) =>
        os = <<"{">>
              \o Join([i \in 1..Len(Elems) |->
                          DecorateElement(Elems[i].elems[1], <<SQ>>, boolalpha)
                              \o <<":", " ">>
                              \o DecorateElement(Elems[i].elems[2], <<SQ>>, boolalpha)],
                      <<",", " ">>)
              \o <<"}">>

C2_Witness ==
    /\ Done("operator<<")
    /\ call.value = Container("map", <<Pair(MkString(<<"a">>), MkInt(1)),
                                        Pair(MkString(<<"b">>), MkInt(2))>>)
    /\ os = <<"{", SQ, "a", SQ, ":", " ", "1", ",", " ",
              SQ, "b", SQ, ":", " ", "2", "}">>

\* C3: a set-kind container written with the default operator<< is opened
\* by "{" and closed by "}"
C3_SetBraces ==
    (Done("operator<<") /\ call.value.type \in SetKinds) =>
        Head(os) = "{" /\ os[Len(os)] = "}"

\* every backslash doubled, every delimiter character d preceded by one
\* backslash, every other character unchanged
RECURSIVE CharwiseEscape(_, _)
CharwiseEscape(text, d) ==
    IF text = <<>> THEN <<>>
    ELSE (IF Head(text) = BS THEN <<BS, BS>>
          ELSE IF Head(text) = d THEN <<BS, d>>
          ELSE <<Head(text)>>) \o CharwiseEscape(Tail(text), d)

\* C4: with the default delimiter, decorate_string writes the delimiter, the
\* text with every backslash doubled and every delimiter preceded by one
\* backslash, and the delimiter again
C4_EscapedBetweenDelimiters ==
    (Done("decorate_string") /\ call.cfg.stringDelimiter = <<SQ>>) =>
        os = <<SQ>> \o CharwiseEscape(call.value.text, SQ) \o <<SQ>>

\* the text between the two delimiters decorate_string wrote
Between(d) == SubSeq(os, Len(d) + 1, Len(os) - Len(d))

\* left to right: backslash-backslash is a backslash, backslash-delimiter is
\* the delimiter, any other escape is malformed
RECURSIVE unescape(_, _)
unescape(text, d) ==
    IF text = <<>> THEN <<>>
    ELSE IF Head(text) = BS
         THEN IF Len(text) >= 2 /\ text[2] = BS
              THEN <<BS>> \o unescape(SubSeq(text, 3, Len(text)), d)
              ELSE IF IsPrefix(d, Tail(text))
              THEN d \o unescape(SubSeq(text, Len(d) + 2, Len(text)), d)
              ELSE <<"MalformedEscape">>
         ELSE <<Head(text)>> \o unescape(Tail(text), d)

\* C5: unescaping what decorate_string wrote between the two delimiters
\* gives back the text it was called with
C5_RoundTrip ==
    Done("decorate_string") =>
        unescape(Between(call.cfg.stringDelimiter), call.cfg.stringDelimiter)
            = call.value.text

\* the text of a tuple element under the default configuration; a bool is a
\* word when words holds, a digit otherwise
TupleElementText(e, words) ==
    IF e.type = "bool"
    THEN IF words
         THEN (IF e.n = 1 THEN <<"t", "r", "u", "e">> ELSE <<"f", "a", "l", "s", "e">>)
         ELSE (IF e.n = 1 THEN <<"1">> ELSE <<"0">>)
    ELSE IF e.type \in {"string", "const char*"}
    THEN decorate_string(StringOf(e), <<SQ>>)
    ELSE WriteValue(e, boolalpha)

TupleText(words) ==
    <<"(">>
        \o Join([i \in 1..Len(Elems) |-> TupleElementText(Elems[i], words)],
                <<",", " ">>)
        \o <<")">>

\* C6 as stated: a tuple is "(", its elements in index order joined by ", ",
\* ")", strings quoted and escaped, bools as the words true and false
C6_TupleBoolWords ==
    (Done("operator<<") /\ call.value.type = "tuple") => os = TupleText(TRUE)

\* C6 amended: the same, with bools as the words true and false when the
\* stream's boolalpha flag is set and as 1 and 0 when it is not
C6_TupleFormat ==
    (Done("operator<<") /\ call.value.type = "tuple") => os = TupleText(boolalpha)

C6_Witness ==
    /\ Done("operator<<")
    /\ ~boolalpha
    /\ call.value = Container("tuple", <<MkInt(1), MkCharPtr(<<"f", "o", "o">>),
                                          MkBool(TRUE)>>)
    /\ os = <<"(", "1", ",", " ", SQ, "f", "o", "o", SQ, ",", " ", "1", ")">>

\* C7: an empty container is written as its open delimiter directly followed
\* by its close delimiter: "[]" for a sequence, "{}" for a mapping
C7_EmptyContainer ==
    (pc = "done" /\ call.op \in {"operator<<", "decorate", "decorate_assoc"}
        /\ Elems = <<>>) =>
        /\ os = call.cfg.containerDelimiters[1] \o call.cfg.containerDelimiters[2]
        /\ (call.op = "operator<<" /\ call.value.type \in SeqKinds \cup {"array"})
              => os = <<"[", "]">>
        /\ (call.op = "operator<<" /\ call.value.type \in MapKinds)
              => os = <<"{", "}">>

C7_Witness ==
    /\ Done("operator<<")
    /\ call.value = Container("unordered_map", <<>>)
    /\ os = <<"{", "}">>

\* a value written with one configuration for the whole tree
RECURSIVE UniformText(_, _, _)
UniformText(v, cfg, boolalphaFlag) ==
    IF v.type \in {"string", "const char*"}
    THEN decorate_string(StringOf(v), cfg.stringDelimiter)
    ELSE IF v.type \in {"int", "bool", "string_view"}
    THEN WriteValue(v, boolalphaFlag)
    ELSE cfg.containerDelimiters[1]
            \o Join([i \in 1..Len(v.elems) |->
                        IF v.type \in MapKinds
                        THEN UniformText(v.elems[i].elems[1], cfg, boolalphaFlag)
                                \o cfg.keyValueSeparator
                                \o UniformText(v.elems[i].elems[2], cfg, boolalphaFlag)
                        ELSE UniformText(v.elems[i], cfg, boolalphaFlag)],
                    cfg.valueSeparator)
            \o cfg.containerDelimiters[2]

\* C8: a call of decorate or decorate_assoc writes the nested containers
\* and their strings with the configuration the call was given
C8_UniformConfiguration ==
    (pc = "done" /\ call.op \in {"decorate", "decorate_assoc"}) =>
        os = UniformText(call.value, call.cfg, boolalpha)

\* the text of one child: quoted and escaped when string-like, its natural
\* text otherwise
ChildText(x) ==
    CASE x.type \in {"string", "const char*"} ->
            decorate_string(StringOf(x), call.cfg.stringDelimiter)
      [] x.type = "string_view" -> x.text
      [] x.type = "int" -> IntText(x.n)
      [] x.type = "bool" -> BoolText(x.n = 1, boolalpha)
      [] OTHER -> OperatorShift(x, boolalpha)

\* C9: every element, key and mapped value is written on its own kind
\* alone: through decorate_string when string-like, as its natural text,
\* unquoted and unescaped, otherwise
C9_IndependentDispatch ==
    (pc = "done" /\ call.op \in {"operator<<", "decorate", "decorate_assoc"}) =>
        os = call.cfg.containerDelimiters[1]
              \o Join([i \in 1..Len(Elems) |->
                          IF call.value.type \in MapKinds
                          THEN ChildText(Elems[i].elems[1])
                                  \o call.cfg.keyValueSeparator
                                  \o ChildText(Elems[i].elems[2])
                          ELSE ChildText(Elems[i])],
                      call.cfg.valueSeparator)
              \o call.cfg.containerDelimiters[2]

C9_Witness ==
    /\ Done("operator<<")
    /\ call.value = Container("map",
           <<Pair(MkString(<<"i", "t", SQ, "s">>), MkStringView(<<"x", SQ, "y">>))>>)
    /\ os = <<"{", SQ, "i", "t", BS, SQ, "s", SQ, ":", " ", "x", SQ, "y", "}">>

\* C10: apart from backslashes and delimiter characters, what
\* decorate_string writes holds the characters of the text, all of them and
\* in their order
C10_OtherCharactersKept ==
    Done("decorate_string") =>
        LET dropped == {BS} \cup {call.cfg.stringDelimiter[i] :
                                     i \in 1..Len(call.cfg.stringDelimiter)}
        IN  Keep(os, dropped) = Keep(call.value.text, dropped)

\* ===================================================== repeated string calls
\* One program calling decorate_string several times.  The function keeps
\* two objects in static storage (lines 122-123), built by the first call
\* that reaches them, and builds delimRe anew in every call (line 121).
MaxCalls == 3

SeqValues == {<<"a">>, <<"a", SQ, DQ>>, <<BS, "|">>, <<"|", SQ>>}

NoRegexes == [escapeRe |-> "none", replacement |-> "none", delimRe |-> "none"]

\* line 121: delimRe is a local, constructed from this call's delimiter
DelimReStatic(prev, escaped) ==
    IF prev.delimRe = "none" THEN escaped ELSE prev.delimRe

DelimRe(prev, escaped) == escaped

\* lines 122-123: a static is initialised once, by the first call to pass
StaticOnce(prev, init) == IF prev = "none" THEN init ELSE prev

\* the regex objects a call works with, given those the program holds
BuildRegexes(prev, stringDelimiter) ==
    [escapeRe    |-> StaticOnce(prev.escapeRe, escapeRe),
     replacement |-> StaticOnce(prev.replacement, stringReplacement),
     delimRe     |-> DelimRe(prev, escapedStringDelimiter(stringDelimiter))]

\* lines 127-132 with the objects of the running program
DecorateStringWith(re, value, stringDelimiter) ==
    c_str(stringDelimiter)
        \o c_str(regex_replace(
                    regex_replace(value, RegexLiteral(re.escapeRe), re.replacement),
                    RegexLiteral(re.delimRe), re.replacement))
        \o c_str(stringDelimiter)

InitCalls ==
    /\ regexes = NoRegexes
    /\ log = <<>>
    /\ FmtIdle /\ ThrIdle /\ DurIdle /\ TimedIdle /\ TrackIdle

notSeq == <<fmtVars, thrVars, durVars, timedVars, trackVars>>

\* one call of decorate_string on a fresh stream; the constructor of
\* delimRe throws before the statics are reached
DecorateStringCall ==
    /\ Len(log) < MaxCalls
    /\ \E value \in SeqValues, stringDelimiter \in StringDelimiters :
        IF RegexThrows(escapedStringDelimiter(stringDelimiter))
        THEN /\ log' = Append(log, [value |-> value,
                                    stringDelimiter |-> stringDelimiter,
                                    threw |-> TRUE, text |-> <<>>])
             /\ UNCHANGED regexes
        ELSE LET re == BuildRegexes(regexes, stringDelimiter)
             IN  /\ regexes' = re
                 /\ log' = Append(log,
                        [value |-> value,
                         stringDelimiter |-> stringDelimiter,
                         threw |-> FALSE,
                         text |-> DecorateStringWith(re, value, stringDelimiter)])
    /\ UNCHANGED notSeq

NextCalls == DecorateStringCall

SpecCalls == InitCalls /\ [][NextCalls]_vars

\* C11: the text a call writes depends only on its value and its string
\* delimiter: every call of a sequence writes what the same call writes
\* alone in a fresh program, so two calls with the same arguments write
\* the same text whatever was called between them
C11_NoHiddenState ==
    /\ \A i \in 1..Len(log) :
        IF RegexThrows(escapedStringDelimiter(log[i].stringDelimiter))
        THEN log[i].threw
        ELSE /\ ~log[i].threw
             /\ log[i].text
                    = decorate_string(log[i].value, log[i].stringDelimiter)
    /\ \A i, j \in 1..Len(log) :
        (log[i].value = log[j].value
            /\ log[i].stringDelimiter = log[j].stringDelimiter)
        => (log[i].text = log[j].text /\ log[i].threw = log[j].threw)

\* a call repeated after a call with another delimiter that occurs in the
\* value, so that the other delimiter's regex would change the text
C11_Witness ==
    /\ Len(log) = 3
    /\ log[1].value = <<"|", SQ>>
    /\ log[1].stringDelimiter = <<SQ>>
    /\ log[2].stringDelimiter = <<"|">>
    /\ log[2].value = <<"|", SQ>>
    /\ log[3] = log[1]
    /\ log[2].text # log[1].text

\* ----------------------------------------------------------------- C12
\* the text of the k-th element (for a mapping: the k-th entry) of the
\* formatted container
Rendering(k) ==
    IF call.value.type \in MapKinds
    THEN DecorateElement(Elems[k].elems[1], call.cfg.stringDelimiter, boolalpha)
            \o c_str(call.cfg.keyValueSeparator)
            \o DecorateElement(Elems[k].elems[2], call.cfg.stringDelimiter, boolalpha)
    ELSE DecorateElement(Elems[k], call.cfg.stringDelimiter, boolalpha)

\* where the k-th rendering starts in the output: after the open delimiter
\* and the renderings and separators of the elements before it
RECURSIVE RenderingOffset(_)
RenderingOffset(k) ==
    IF k = 1 THEN Len(c_str(call.cfg.containerDelimiters[1]))
    ELSE RenderingOffset(k - 1) + Len(Rendering(k - 1))
            + Len(c_str(call.cfg.valueSeparator))

\* C12: the k-th rendered element is the rendering of the k-th element of
\* the iteration: it stands in the output at the position that follows the
\* renderings of the elements 1..k-1, for sequences, sets, tuples, pairs
\* and mappings alike
C12_IterationOrder ==
    (pc = "done" /\ call.op \in {"operator<<", "decorate", "decorate_assoc"}) =>
        \A k \in 1..Len(Elems) :
            /\ RenderingOffset(k) + Len(Rendering(k)) <= Len(os)
            /\ SubSeq(os, RenderingOffset(k) + 1,
                      RenderingOffset(k) + Len(Rendering(k))) = Rendering(k)

\* a sequence whose elements are not in sorted order
C12_Witness ==
    /\ Done("operator<<")
    /\ call.value = Container("vector", <<MkInt(3), MkInt(1), MkInt(2)>>)
    /\ os = <<"[", "3", ",", " ", "1", ",", " ", "2", "]">>

\* ======================================================== concurrent calls
\* Several threads, each formatting its own std::vector<std::string> into
\* its own stream through detail::decorate.  The threads share nothing but
\* the two function-local statics of decorate_string, whose initialisation
\* the language guards: the first thread to arrive constructs the object,
\* the others wait until it is complete.
NumThreads == 2

Threads == 1..NumThreads

ThreadValues ==
    {<<>>, <<<<"a", BS>>>>, <<<<"|", SQ>>, <<BS, "|">>>>}

ThreadDelimiters == {<<SQ>>, <<"|">>}

ThreadConfig(stringDelimiter) ==
    Config(SeqContainerDelimiters, stringDelimiter,
           DefaultValueSeparator, DefaultKeyValueSeparator)

\* a static not yet constructed holds nothing a regex_replace could use
Unbuilt == [status |-> "uninit", value |-> <<>>]

StaticInit(which) ==
    IF which = "escapeRe" THEN escapeRe ELSE stringReplacement

StaticReadyUnguarded(static) == static.status # "uninit"

\* lines 122-123: control passes the declaration of a static that some
\* thread has finished constructing
StaticReady(static) == static.status = "done"

InitThreads ==
    /\ statics = [which \in {"escapeRe", "replacement"} |-> Unbuilt]
    /\ threads \in [Threads ->
            {[pc |-> "open", value |-> v, stringDelimiter |-> d, i |-> 1,
              printValueSeparator |-> FALSE, delimRe |-> <<>>,
              at |-> "escapeRe", os |-> <<>>] :
                v \in ThreadValues, d \in ThreadDelimiters}]
    /\ FmtIdle /\ SeqIdle /\ DurIdle /\ TimedIdle /\ TrackIdle

notThr == <<fmtVars, seqVars, durVars, timedVars, trackVars>>

\* line 194: os << containerDelimiters.first.c_str()
ThreadOpen(t) ==
    /\ threads[t].pc = "open"
    /\ threads' = [threads EXCEPT
            ![t].os = @ \o ContainerOpen(SeqContainerDelimiters),
            ![t].pc = IF threads[t].value = <<>> THEN "close" ELSE "element"]
    /\ UNCHANGED statics
    /\ UNCHANGED notThr

\* lines 197-203 and 120-121: the separator, then decorate_string builds
\* its local delimRe
ThreadEnterString(t) ==
    /\ threads[t].pc = "element"
    /\ threads' = [threads EXCEPT
            ![t].os = @ \o SeparatorBefore(threads[t].printValueSeparator,
                                           DefaultValueSeparator),
            ![t].printValueSeparator = TRUE,
            ![t].delimRe = escapedStringDelimiter(threads[t].stringDelimiter),
            ![t].at = "escapeRe",
            ![t].pc = "guard"]
    /\ UNCHANGED statics
    /\ UNCHANGED notThr

\* lines 122-123: the first thread at an unconstructed static starts
\* constructing it
ThreadBeginStatic(t) ==
    /\ threads[t].pc = "guard"
    /\ statics[threads[t].at].status = "uninit"
    /\ statics' = [statics EXCEPT ![threads[t].at].status = "initialising"]
    /\ threads' = [threads EXCEPT ![t].pc = "construct"]
    /\ UNCHANGED notThr

ThreadFinishStatic(t) ==
    /\ threads[t].pc = "construct"
    /\ statics' = [statics EXCEPT
            ![threads[t].at] = [status |-> "done",
                                value |-> StaticInit(threads[t].at)]]
    /\ threads' = [threads EXCEPT ![t].pc = "guard"]
    /\ UNCHANGED notThr

\* a thread at a static that is ready goes on to the next declaration
ThreadPassStatic(t) ==
    /\ threads[t].pc = "guard"
    /\ StaticReady(statics[threads[t].at])
    /\ threads' = [threads EXCEPT
            ![t].at = "replacement",
            ![t].pc = IF threads[t].at = "escapeRe" THEN "guard" ELSE "replace"]
    /\ UNCHANGED statics
    /\ UNCHANGED notThr

\* lines 127-132, then the loop of decorate goes to the next element
ThreadReplace(t) ==
    /\ threads[t].pc = "replace"
    /\ LET th == threads[t]
           re == [escapeRe    |-> statics["escapeRe"].value,
                  replacement |-> statics["replacement"].value,
                  delimRe     |-> th.delimRe]
       IN  threads' = [threads EXCEPT
                ![t].os = @ \o DecorateStringWith(re, th.value[th.i],
                                                  th.stringDelimiter),
                ![t].i = th.i + 1,
                ![t].pc = IF th.i = Len(th.value) THEN "close" ELSE "element"]
    /\ UNCHANGED statics
    /\ UNCHANGED notThr

\* line 208: os << containerDelimiters.second.c_str()
ThreadClose(t) ==
    /\ threads[t].pc = "close"
    /\ threads' = [threads EXCEPT
            ![t].os = @ \o ContainerClose(SeqContainerDelimiters),
            ![t].pc = "finished"]
    /\ UNCHANGED statics
    /\ UNCHANGED notThr

NextThreads ==
    \E t \in Threads :
        \/ ThreadOpen(t)
        \/ ThreadEnterString(t)
        \/ ThreadBeginStatic(t)
        \/ ThreadFinishStatic(t)
        \/ ThreadPassStatic(t)
        \/ ThreadReplace(t)
        \/ ThreadClose(t)

SpecThreads == InitThreads /\ [][NextThreads]_vars

\* what the call of thread t writes when it runs alone
AloneText(t) ==
    decorate(Container("vector",
                       [k \in 1..Len(threads[t].value) |->
                           MkString(threads[t].value[k])]),
             ThreadConfig(threads[t].stringDelimiter), FALSE)

\* C13: under every interleaving a thread's stream holds, when its call has
\* finished, exactly the text the same call writes when run alone, and
\* before that a prefix of it
C13_ConcurrentCallsAlone ==
    \A t \in Threads :
        /\ IsPrefix(threads[t].os, AloneText(t))
        /\ threads[t].pc = "finished" => threads[t].os = AloneText(t)

\* two threads with different delimiters have both finished, and one of
\* them had to wait for a static the other was constructing
C13_Witness ==
    /\ \A t \in Threads : threads[t].pc = "finished"
    /\ threads[1].value = <<<<"|", SQ>>, <<BS, "|">>>>
    /\ threads[1].stringDelimiter = <<SQ>>
    /\ threads[2].value = <<<<"|", SQ>>, <<BS, "|">>>>
    /\ threads[2].stringDelimiter = <<"|">>
    /\ threads[1].os # threads[2].os

C13_WaitWitness ==
    \E t, u \in Threads :
        /\ t # u
        /\ threads[t].pc = "guard" /\ threads[u].pc = "construct"
        /\ threads[t].at = threads[u].at

\* ============================================================== timed.hpp
\* --------------------------------------------------- durationToHumanString
\* A std::chrono::duration is held as whole seconds plus the nanoseconds
\* below the second, with the unit of its type (its period).  The argument
\* types used are nanoseconds (a sum of literals down to ns), microseconds,
\* milliseconds (timed::block) and seconds.
UnitNs(unit) ==
    CASE unit = "ns" -> 1
      [] unit = "us" -> 1000
      [] unit = "ms" -> 1000000
      [] unit = "s" -> 1000000000

Duration(s, ns, unit) == [s |-> s, ns |-> ns, unit |-> unit]

\* the chrono literals: h, min, s, ms, us and ns, summed
Literals(h, min, s, ms, us, n, unit) ==
    Duration(h * 3600 + min * 60 + s, ms * 1000000 + us * 1000 + n, unit)

\* duration < 1us, < 1ms, < 1s: less than one of the given unit
Below(d, unit) == d.s = 0 /\ d.ns < UnitNs(unit)

\* duration < 1min
BelowMinute(d) == d.s < 60

\* duration_cast<To>(d).count() of a duration below one second
duration_cast(unit, d) == d.ns \div UnitNs(unit)

\* std::format("{}", d): the count in the duration's own unit and the
\* unit suffix
UnitSuffix(unit) ==
    CASE unit = "ns" -> <<"n", "s">>
      [] unit = "us" -> <<"u", "s">>
      [] unit = "ms" -> <<"m", "s">>
      [] unit = "s" -> <<"s">>

FormatDuration(count, unit) == IntText(count) \o UnitSuffix(unit)

\* {:0>N}: right-aligned, filled with '0' up to the width
RECURSIVE ZeroFill(_, _)
ZeroFill(text, width) ==
    IF Len(text) >= width THEN text ELSE ZeroFill(<<"0">> \o text, width)

\* std::format("{:%T}", milliseconds): HH:MM:SS and the milliseconds
FormatT(d) ==
    ZeroFill(IntText(d.s \div 3600), 2) \o <<":">>
        \o ZeroFill(IntText((d.s % 3600) \div 60), 2) \o <<":">>
        \o ZeroFill(IntText(d.s % 60), 2) \o <<".">>
        \o ZeroFill(IntText(duration_cast("ms", d)), 3)

\* line 100: {:0>4} on milliPart.count()
MilliWidth(milliPart) == ZeroFill(IntText(milliPart), 4)

\* lines 86-104
durationToHumanString(d) ==
    IF Below(d, "us") THEN FormatDuration(duration_cast(d.unit, d), d.unit)
    ELSE IF Below(d, "ms") THEN FormatDuration(duration_cast("us", d), "us")
    ELSE IF Below(d, "s") THEN FormatDuration(duration_cast("ms", d), "ms")
    ELSE IF BelowMinute(d)
    THEN LET secPart == d.s
             milliPart == duration_cast("ms", d)
         IN  IntText(secPart) \o <<".">> \o MilliWidth(milliPart) \o <<"s">>
    ELSE FormatT(d)

Durations ==
    {Literals(h, min, s, ms, us, n, "ns") :
        h \in {0, 3}, min \in {0, 2}, s \in {0, 1, 5, 59},
        ms \in {0, 1, 42, 575, 999}, us \in {0, 1, 999}, n \in {0, 1, 103, 999}}
    \cup {Literals(0, 0, s, ms, us, 0, "us") :
            s \in {0, 5}, ms \in {0, 42}, us \in {0, 1, 999}}
    \cup {Literals(h, min, s, ms, 0, 0, "ms") :
            h \in {0, 3}, min \in {0, 2}, s \in {0, 1, 5, 59},
            ms \in {0, 1, 42, 575, 999}}
    \cup {Literals(0, min, s, 0, 0, 0, "s") : min \in {0, 2}, s \in {0, 1, 59}}

InitDuration ==
    /\ duration \in Durations
    /\ human = "none"
    /\ FmtIdle /\ SeqIdle /\ ThrIdle /\ TimedIdle /\ TrackIdle

notDur == <<fmtVars, seqVars, thrVars, timedVars, trackVars>>

CallDurationToHumanString ==
    /\ human = "none"
    /\ human' = durationToHumanString(duration)
    /\ UNCHANGED duration
    /\ UNCHANGED notDur

NextDuration == CallDurationToHumanString

SpecDuration == InitDuration /\ [][NextDuration]_vars

\* the largest of ns, us, ms in which a duration below a second is >= 1
LargestUnit(d) ==
    IF Below(d, "us") THEN "ns" ELSE IF Below(d, "ms") THEN "us" ELSE "ms"

Contains(text, c) == \E i \in 1..Len(text) : text[i] = c

\* C15: a duration below one second is shown in the largest of ns, us, ms
\* in which it is at least 1, followed by its fractional remainder: a
\* remainder that is not zero shows after a decimal point, and 42ms + 103ns
\* is "42.103ms"
C15_SubSecondRemainder ==
    (human # "none" /\ Below(duration, "s")) =>
        /\ (duration.ns % UnitNs(LargestUnit(duration)) # 0)
              => Contains(human, ".")
        /\ (duration = Literals(0, 0, 0, 42, 0, 103, "ns"))
              => human = <<"4", "2", ".", "1", "0", "3", "m", "s">>

RECURSIVE ParseNat(_)
ParseNat(text) ==
    IF text = <<>> THEN 0
    ELSE 10 * ParseNat(SubSeq(text, 1, Len(text) - 1))
            + (CHOOSE n \in 0..9 : Digits(n) = <<text[Len(text)]>>)

RECURSIVE Power10(_)
Power10(n) == IF n = 0 THEN 1 ELSE 10 * Power10(n - 1)

PointAt(text) == CHOOSE i \in 1..Len(text) : text[i] = "."

\* C16: for 1s <= d < 1min the text is "<whole seconds>.<digits>s", and
\* read as a decimal number of seconds it equals d truncated to whole
\* milliseconds: whole seconds are d's seconds and the digits, as a decimal
\* fraction, are d's milliseconds
C16_SecondsDecimal ==
    (human # "none" /\ ~Below(duration, "s") /\ BelowMinute(duration)) =>
        /\ Contains(human, ".")
        /\ human[Len(human)] = "s"
        /\ LET whole  == SubSeq(human, 1, PointAt(human) - 1)
               digits == SubSeq(human, PointAt(human) + 1, Len(human) - 1)
           IN  /\ ParseNat(whole) = duration.s
               /\ ParseNat(digits) * 1000
                    = duration_cast("ms", duration) * Power10(Len(digits))

\* ------------------------------------------------------ block and call
\* One thread constructing and destroying timed::block objects with
\* automatic storage, so that the block constructed last is destroyed
\* first, and calling timed::call once.  A point in time is a duration
\* since the clock's epoch.
MaxBlocks == 3

IndentFactors == {2, 4}

\* line 107: template<size_t IndentFactor = 4>
DefaultIndentFactor == 4

BlockNames == {<<"a">>, <<"b">>}
CallNames == {<<"c">>}
FuncValues == {7, 8}

\* the time a piece of work takes
Elapsed ==
    {Literals(0, 0, 0, 0, 0, 0, "ns"), Literals(0, 0, 0, 42, 0, 103, "ns"),
     Literals(0, 0, 5, 575, 0, 0, "ns")}

\* end - start and start + d on time points
TimePlus(t, d) ==
    Duration(t.s + d.s + (t.ns + d.ns) \div UnitNs("s"),
             (t.ns + d.ns) % UnitNs("s"), "ns")

TimeMinus(t, u) ==
    IF t.ns >= u.ns
    THEN Duration(t.s - u.s, t.ns - u.ns, "ns")
    ELSE Duration(t.s - u.s - 1, t.ns + UnitNs("s") - u.ns, "ns")

\* line 123: duration_cast<milliseconds>(end - start)
ToMilliseconds(d) ==
    Duration(d.s, (d.ns \div UnitNs("ms")) * UnitNs("ms"), "ms")

\* std::string(n, ' ')
RECURSIVE Spaces(_)
Spaces(n) == IF n = 0 THEN <<>> ELSE <<" ">> \o Spaces(n - 1)

\* lines 124-125: the line a block writes when it is destroyed
BlockLine(indentAfter, indent_factor, name, d) ==
    Spaces(indentAfter * indent_factor) \o name \o <<":", " ">>
        \o durationToHumanString(d) \o <<NL>>

NoCall == [pc |-> "idle", name |-> <<>>, block |-> 0, depth |-> 0, invoked |-> 0,
           funcValue |-> "none", linesAtReturn |-> 0, result |-> "none"]

InitBlock ==
    /\ now = Duration(0, 0, "ns")
    /\ indent = [f \in IndentFactors |-> 0]
    /\ alive = <<>>
    /\ cout = <<>>
    /\ printed = <<>>
    /\ tcall = NoCall
    /\ tcalls = "none"
    /\ FmtIdle /\ SeqIdle /\ ThrIdle /\ DurIdle /\ TrackIdle

notTimed == <<fmtVars, seqVars, thrVars, durVars, trackVars>>

BlocksMade == Len(printed) + Len(alive)

\* lines 115-119: block<IndentFactor> b(name)
Construct(name, IndentFactor) ==
    /\ alive' = Append(alive, [id |-> BlocksMade + 1, name |-> name,
                               start |-> now, indent_factor |-> IndentFactor])
    /\ indent' = [indent EXCEPT ![IndentFactor] = @ + 1]

\* lines 121-126: the innermost block goes out of scope after work that
\* took the time elapsed
Destruct(elapsed) ==
    LET b        == alive[Len(alive)]
        end      == TimePlus(now, elapsed)
        d        == ToMilliseconds(TimeMinus(end, b.start))
        decIndent == indent[b.indent_factor] - 1
    IN  /\ now' = end
        /\ indent' = [indent EXCEPT ![b.indent_factor] = decIndent]
        /\ cout' = Append(cout, BlockLine(decIndent, b.indent_factor, b.name, d))
        /\ printed' = Append(printed,
                [id |-> b.id, indent_factor |-> b.indent_factor,
                 enclosing |-> {alive[k].id : k \in 1..(Len(alive) - 1)}])
        /\ alive' = SubSeq(alive, 1, Len(alive) - 1)

BlockConstruct ==
    /\ BlocksMade < MaxBlocks
    /\ tcall.pc \in {"idle", "in func", "returned"}
    /\ \E name \in BlockNames, IndentFactor \in IndentFactors :
        Construct(name, IndentFactor)
    /\ UNCHANGED <<now, cout, printed, tcall, tcalls>>
    /\ UNCHANGED notTimed

\* a block's scope ends; the blocks of the caller outlive the call
BlockDestruct ==
    /\ alive # <<>>
    /\ tcall.pc \in {"idle", "returned"} \/ Len(alive) > tcall.depth
    /\ \E elapsed \in Elapsed : Destruct(elapsed)
    /\ UNCHANGED <<tcall, tcalls>>
    /\ UNCHANGED notTimed

\* line 131: block b(name)
CallEnter ==
    /\ tcall.pc = "idle"
    /\ BlocksMade < MaxBlocks
    /\ \E name \in CallNames :
        /\ Construct(name, DefaultIndentFactor)
        /\ tcall' = [tcall EXCEPT !.pc = "entered", !.name = name,
                                  !.block = BlocksMade + 1,
                                  !.depth = Len(alive) + 1]
    /\ UNCHANGED <<now, cout, printed, tcalls>>
    /\ UNCHANGED notTimed

\* line 132: func() is called
FuncInvoke ==
    /\ tcall.pc = "entered"
    /\ tcall' = [tcall EXCEPT !.pc = "in func", !.invoked = @ + 1]
    /\ UNCHANGED <<now, indent, alive, cout, printed, tcalls>>
    /\ UNCHANGED notTimed

\* func returns, its own blocks destroyed
FuncReturn ==
    /\ tcall.pc = "in func"
    /\ Len(alive) = tcall.depth
    /\ \E r \in FuncValues :
        tcall' = [tcall EXCEPT !.pc = "func returned", !.funcValue = r,
                               !.linesAtReturn = Len(cout)]
    /\ UNCHANGED <<now, indent, alive, cout, printed, tcalls>>
    /\ UNCHANGED notTimed

CallResultDropped(funcValue) == 0

\* line 132: return func()
CallResult(funcValue) == funcValue

\* lines 132-133: b is destroyed, the value goes to the caller
CallExit ==
    /\ tcall.pc = "func returned"
    /\ \E elapsed \in Elapsed : Destruct(elapsed)
    /\ tcall' = [tcall EXCEPT !.pc = "returned",
                              !.result = CallResult(tcall.funcValue)]
    /\ UNCHANGED tcalls
    /\ UNCHANGED notTimed

NextBlock ==
    \/ BlockConstruct
    \/ BlockDestruct
    \/ CallEnter
    \/ FuncInvoke
    \/ FuncReturn
    \/ CallExit

SpecBlock == InitBlock /\ [][NextBlock]_vars

RECURSIVE LeadingSpaces(_)
LeadingSpaces(text) ==
    IF text = <<>> \/ Head(text) # " " THEN 0
    ELSE 1 + LeadingSpaces(Tail(text))

\* C14: with blocks destroyed in reverse order of construction, the line
\* of an inner block comes before the line of every block that encloses
\* it, and each line is indented by the block's IndentFactor times the
\* number of blocks alive around it
C14_NestedIndentation ==
    \A k \in 1..Len(cout) :
        /\ LeadingSpaces(cout[k])
              = printed[k].indent_factor * Cardinality(printed[k].enclosing)
        /\ \A j \in 1..Len(cout) :
              printed[j].id \in printed[k].enclosing => k < j

\* the same for blocks that all have one IndentFactor
C14_OneFactorIndentation ==
    (\A k \in 1..Len(printed) : printed[k].indent_factor = DefaultIndentFactor)
    /\ (\A k \in 1..Len(alive) : alive[k].indent_factor = DefaultIndentFactor)
    => C14_NestedIndentation

\* the lines of cout written by the block of timed::call
CallLines == {k \in 1..Len(cout) : printed[k].id = tcall.block}

\* C18: when timed::call has returned, func was invoked exactly once, the
\* caller holds exactly the value func returned, and the call's block
\* wrote exactly one line, "<name>: <time>", after func had returned
C18_CallDecorator ==
    tcall.pc = "returned" =>
        /\ tcall.invoked = 1
        /\ tcall.funcValue \in FuncValues
        /\ tcall.result = tcall.funcValue
        /\ Cardinality(CallLines) = 1
        /\ \A k \in CallLines :
            /\ k > tcall.linesAtReturn
            /\ LET line == cout[k]
                   text == SubSeq(line, LeadingSpaces(line) + 1, Len(line))
               IN  /\ IsPrefix(tcall.name \o <<":", " ">>, text)
                   /\ line[Len(line)] = NL

\* a call made inside a block, whose func ran a block of its own that wrote
\* its line before func returned
C18_Witness ==
    /\ tcall.pc = "returned"
    /\ tcall.result = 7
    /\ tcall.depth = 2
    /\ tcall.linesAtReturn = 1
    /\ Len(cout) = 2
    /\ cout[2] = <<" ", " ", " ", " ", "c", ":", " ", "4", "2", "m", "s", NL>>

\* ------------------------------------------------------------------ calls
\* timed::calls(name, count, func) on a clock that does not run backwards;
\* func takes one of a few times.
MaxCount == 3

FuncTimes ==
    {Literals(0, 0, 0, 0, 3, 700, "ns"), Literals(0, 0, 0, 55, 0, 0, "ns"),
     Literals(0, 0, 0, 110, 0, 1, "ns")}

Zero == Duration(0, 0, "ns")

DurationLess(d, e) == d.s < e.s \/ (d.s = e.s /\ d.ns < e.ns)

\* lines 178-179: std::min, std::max
DurationMin(d, e) == IF DurationLess(e, d) THEN e ELSE d
DurationMax(d, e) == IF DurationLess(d, e) THEN e ELSE d

\* line 182: duration / count, the quotient of the tick counts
DurationDiv(d, n) ==
    Duration(d.s \div n, ((d.s % n) * UnitNs("s") + d.ns) \div n, "ns")

\* lines 136-146 and 157: call_info info{std::string(name), count}
call_info(name, count) ==
    [name |-> name, count |-> count, total |-> Zero, avg |-> Zero,
     min |-> Zero, max |-> Zero]

InitTimedCalls ==
    /\ now = Zero
    /\ tcalls \in {[pc |-> "enter", info |-> call_info(name, count), i |-> 0,
                    start |-> Zero, invoked |-> 0, durations |-> <<>>] :
                        name \in CallNames, count \in 0..MaxCount}
    /\ indent = <<>> /\ alive = <<>> /\ cout = <<>> /\ printed = <<>>
    /\ tcall = "none"
    /\ FmtIdle /\ SeqIdle /\ ThrIdle /\ DurIdle /\ TrackIdle

notCalls == <<indent, alive, cout, printed, tcall, notTimed>>

\* lines 159-161
CallsEarlyReturn ==
    /\ tcalls.pc = "enter"
    /\ tcalls.info.count = 0
    /\ tcalls' = [tcalls EXCEPT !.pc = "returned"]
    /\ UNCHANGED now
    /\ UNCHANGED notCalls

\* line 165
CallsWarmupStart ==
    /\ tcalls.pc = "enter"
    /\ tcalls.info.count # 0
    /\ tcalls' = [tcalls EXCEPT !.pc = "warmup func", !.start = now]
    /\ UNCHANGED now
    /\ UNCHANGED notCalls

\* lines 166 and 175: (void)func()
CallsFunc ==
    /\ tcalls.pc \in {"warmup func", "loop func"}
    /\ \E elapsed \in FuncTimes :
        /\ now' = TimePlus(now, elapsed)
        /\ tcalls' = [tcalls EXCEPT
                !.pc = IF tcalls.pc = "warmup func"
                       THEN "warmup measure" ELSE "loop measure",
                !.invoked = @ + 1,
                !.durations = Append(@, elapsed)]
    /\ UNCHANGED notCalls

\* lines 167-169
CallsWarmupMeasure ==
    /\ tcalls.pc = "warmup measure"
    /\ LET total == TimeMinus(now, tcalls.start)
       IN  tcalls' = [tcalls EXCEPT !.pc = "loop", !.i = 1,
                                    !.info.total = total,
                                    !.info.min = total,
                                    !.info.max = total]
    /\ UNCHANGED now
    /\ UNCHANGED notCalls

LoopContinuesInclusive(i, count) == i <= count

\* line 173: i < count
LoopContinues(i, count) == i < count

\* lines 173-174
CallsLoopStart ==
    /\ tcalls.pc = "loop"
    /\ LoopContinues(tcalls.i, tcalls.info.count)
    /\ tcalls' = [tcalls EXCEPT !.pc = "loop func", !.start = now]
    /\ UNCHANGED now
    /\ UNCHANGED notCalls

\* lines 176-179 and ++i
CallsLoopMeasure ==
    /\ tcalls.pc = "loop measure"
    /\ LET d == TimeMinus(now, tcalls.start)
       IN  tcalls' = [tcalls EXCEPT
                !.pc = "loop", !.i = @ + 1,
                !.info.total = TimePlus(@, d),
                !.info.min = DurationMin(@, d),
                !.info.max = DurationMax(@, d)]
    /\ UNCHANGED now
    /\ UNCHANGED notCalls

\* lines 182-184
CallsReturn ==
    /\ tcalls.pc = "loop"
    /\ ~LoopContinues(tcalls.i, tcalls.info.count)
    /\ tcalls' = [tcalls EXCEPT
            !.pc = "returned",
            !.info.avg = DurationDiv(tcalls.info.total, tcalls.info.count)]
    /\ UNCHANGED now
    /\ UNCHANGED notCalls

NextTimedCalls ==
    \/ CallsEarlyReturn
    \/ CallsWarmupStart
    \/ CallsFunc
    \/ CallsWarmupMeasure
    \/ CallsLoopStart
    \/ CallsLoopMeasure
    \/ CallsReturn

SpecTimedCalls == InitTimedCalls /\ [][NextTimedCalls]_vars

\* nanoseconds of a duration below about two seconds
Nanoseconds(d) == d.s * UnitNs("s") + d.ns

RECURSIVE SumNs(_)
SumNs(ds) == IF ds = <<>> THEN 0 ELSE Nanoseconds(Head(ds)) + SumNs(Tail(ds))

\* C17: calls with count >= 1 invokes func exactly count times, the
\* warm-up included; total is the sum of the count durations, min and max
\* are the smallest and the largest of them, avg is total divided by count
\* with integer division, and min <= avg <= max
C17_CallsStatistics ==
    (tcalls.pc = "returned" /\ tcalls.info.count >= 1) =>
        LET info == tcalls.info
            ds   == tcalls.durations
        IN  /\ tcalls.invoked = info.count
            /\ Len(ds) = info.count
            /\ Nanoseconds(info.total) = SumNs(ds)
            /\ \E k \in 1..Len(ds) : ds[k] = info.min
            /\ \E k \in 1..Len(ds) : ds[k] = info.max
            /\ \A k \in 1..Len(ds) :
                /\ Nanoseconds(info.min) <= Nanoseconds(ds[k])
                /\ Nanoseconds(ds[k]) <= Nanoseconds(info.max)
            /\ Nanoseconds(info.avg) = SumNs(ds) \div info.count
            /\ Nanoseconds(info.min) <= Nanoseconds(info.avg)
            /\ Nanoseconds(info.avg) <= Nanoseconds(info.max)

\* three calls of different durations, the shortest in the middle and an
\* average that is not one of them
C17_Witness ==
    /\ tcalls.pc = "returned"
    /\ tcalls.info.count = 3
    /\ tcalls.durations = <<Literals(0, 0, 0, 55, 0, 0, "ns"),
                            Literals(0, 0, 0, 0, 3, 700, "ns"),
                            Literals(0, 0, 0, 110, 0, 1, "ns")>>
    /\ tcalls.info.min = Literals(0, 0, 0, 0, 3, 700, "ns")
    /\ tcalls.info.max = Literals(0, 0, 0, 110, 0, 1, "ns")
    /\ tcalls.info.avg = Literals(0, 0, 0, 55, 1, 233, "ns")

\* ============================================================ tracked.hpp
\* A program that evaluates new, new[], delete, delete[] and copy
\* assignment expressions on the tracked classes B and D : B, and then
\* ends, which destroys tracked_base::allocs.  A pointer is a number; it is
\* written to the log as that number (the text of a void* is the
\* implementation's).
MaxOps == 4

Classes == {"B", "D"}

\* line 138: classname = #C
classname(C) == <<C>>

\* malloc: memory is never given back (delete_ never lets free run), so
\* every allocation gets an address no earlier allocation has
malloc(allocs) == 64 * (Len(allocs) + 1)

\* the address of element i of an array allocated at p: after the array's
\* element count, sizeof(C) apart
ElementAddress(p, i) == p + 8 + 16 * (i - 1)

\* operator<<(ostream&, const void*)
AddressText(address) == IntText(address)

\* lines 100-105 and 61: allocation{address, "", -1, false}
allocation(address) ==
    [address |-> address, classname |-> <<>>, counter |-> -1, deleted |-> FALSE]

\* lines 60-62
new_(allocs, address) == Append(allocs, allocation(address))

\* std::find_if from begin() and from rbegin(): the index found, 0 for end
FindFirst(allocs, address) ==
    IF \E k \in 1..Len(allocs) : allocs[k].address = address
    THEN CHOOSE k \in 1..Len(allocs) :
            /\ allocs[k].address = address
            /\ \A j \in 1..(k - 1) : allocs[j].address # address
    ELSE 0

FindLast(allocs, address) ==
    IF \E k \in 1..Len(allocs) : allocs[k].address = address
    THEN CHOOSE k \in 1..Len(allocs) :
            /\ allocs[k].address = address
            /\ \A j \in (k + 1)..Len(allocs) : allocs[j].address # address
    ELSE 0

\* lines 86-98
construct_(allocs, address, name, counter) ==
    LET allocIt == FindFirst(allocs, address)
    IN  IF allocIt # 0
        THEN [allocs EXCEPT ![allocIt].classname = name,
                            ![allocIt].counter = counter]
        ELSE allocs

MarkDeletedNever(alloc) == alloc

\* line 80: allocIt->deleted = true
MarkDeleted(alloc) == [alloc EXCEPT !.deleted = TRUE]

\* lines 64-84: the allocations afterwards, the text written and the
\* value returned
delete_(allocs, address, name) ==
    LET allocIt == FindLast(allocs, address)
    IN  IF allocIt = 0
        THEN [allocs |-> allocs,
              out |-> <<"d", "e", "l", "e", "t", "e", " ", "o", "f", " ", "u", "n", "k", "o", "w", "n", " ", "o", "b", "j", "e", "c", "t", " ">> \o name \o <<"(", "0", "x">>
                        \o AddressText(address) \o <<")", " ">>,
              toDelete |-> FALSE]
        ELSE IF allocs[allocIt].deleted
        THEN [allocs |-> allocs,
              out |-> <<"d", "o", "u", "b", "l", "e", " ", "d", "e", "l", "e", "t", "e", " ", "o", "f", " ">> \o allocs[allocIt].classname
                        \o <<"(", "0", "x">> \o AddressText(address) \o <<")", " ">>,
              toDelete |-> FALSE]
        ELSE [allocs |-> [allocs EXCEPT ![allocIt] = MarkDeleted(@)],
              out |-> <<>>,
              toDelete |-> FALSE]

\* lines 143-146: the constructor of class C on the object at address
Constructor(st, C, address, m_counter) ==
    [allocs |-> construct_(st.allocs, address, classname(C), m_counter),
     out |-> st.out \o classname(C) \o IntText(m_counter) \o <<"(", ")", " ">>]

\* lines 205-213: a D is a B first; the base constructor runs first
ConstructObject(st, C, address, m_counter) ==
    IF C = "D"
    THEN Constructor(Constructor(st, "B", address, m_counter),
                     "D", address, m_counter)
    ELSE Constructor(st, "B", address, m_counter)

\* lines 174-176: the virtual destructor, most derived class first
DestructorText(C, m_counter) ==
    (IF C = "D" THEN <<"~", "D">> \o IntText(m_counter) \o <<"(", ")", " ">> ELSE <<>>)
        \o <<"~", "B">> \o IntText(m_counter) \o <<"(", ")", " ">>

TargetFirst(C, rhsCounter, m_counter) ==
    classname(C) \o IntText(m_counter) \o <<"=">>
        \o classname(C) \o IntText(rhsCounter) \o <<"(", "&", ")", " ">>

\* lines 193-197: C::operator=(const C &rhs)
CopyAssignText(C, rhsCounter, m_counter) ==
    classname(C) \o IntText(rhsCounter) \o <<"=">>
        \o classname(C) \o IntText(m_counter) \o <<"(", "&", ")", " ">>

\* line 166: count / sizeof(C)
numberOfObjects(count, sizeofC) == count \div sizeofC

\* lines 47-57: the loop of ~alloc_tracker from allocation k on
RECURSIVE LeakLoop(_, _, _)
LeakLoop(allocs, k, execOnlyOnce) ==
    IF k > Len(allocs) THEN <<>>
    ELSE IF ~allocs[k].deleted
    THEN (IF execOnlyOnce THEN <<>> ELSE <<"l", "e", "a", "k", "e", "d", " ", "o", "b", "j", "e", "c", "t", "s", ":", " ">>)
            \o allocs[k].classname \o IntText(allocs[k].counter)
            \o <<"(", "0", "x">> \o AddressText(allocs[k].address) \o <<")", " ">>
            \o LeakLoop(allocs, k + 1, TRUE)
    ELSE LeakLoop(allocs, k + 1, execOnlyOnce)

Event(op, C, counter, n, other) ==
    [op |-> op, class |-> C, counter |-> counter, n |-> n, other |-> other]

Object(C, counter, n, array) ==
    [class |-> C, counter |-> counter, n |-> n, array |-> array,
     deleted |-> FALSE]

\* lines 130-131
InitTracked ==
    /\ currentCounter = 0
    /\ m_allocs = <<>>
    /\ objects = <<>>
    /\ trackedOut = <<>>
    /\ ended = FALSE
    /\ mainLen = 0
    /\ history = <<>>
    /\ freed = {}
    /\ deleteCalls = <<>>
    /\ FmtIdle /\ SeqIdle /\ ThrIdle /\ DurIdle /\ TimedIdle

notTracked == <<fmtVars, seqVars, thrVars, durVars, timedVars>>

Running == ~ended /\ Len(history) < MaxOps

\* new C: operator new (lines 158-163), then the constructors, each taking
\* the next counter (lines 123-124)
NewExpr ==
    /\ Running
    /\ \E C \in Classes :
        LET p  == malloc(m_allocs)
            st == ConstructObject(
                    [allocs |-> new_(m_allocs, p),
                     out |-> <<"n", "e", "w", "(">> \o classname(C) \o <<")", " ">>],
                    C, p, currentCounter)
        IN  /\ m_allocs' = st.allocs
            /\ trackedOut' = trackedOut \o st.out
            /\ currentCounter' = currentCounter + 1
            /\ objects' = Append(objects, Object(C, currentCounter, 1, FALSE))
            /\ history' = Append(history, Event("new", C, currentCounter, 1, 0))
    /\ UNCHANGED <<ended, mainLen, freed, deleteCalls>>
    /\ UNCHANGED notTracked

\* new C[n]: operator new[] (lines 165-171), then the n elements in order
NewArrayExpr ==
    /\ Running
    /\ \E C \in Classes, n \in 1..2 :
        LET p   == malloc(m_allocs)
            st0 == [allocs |-> new_(m_allocs, p),
                    out |-> <<"n", "e", "w", "[">> \o IntText(numberOfObjects(16 * n + 8, 16))
                              \o <<"]", "(">> \o classname(C) \o <<")", " ">>]
            st1 == ConstructObject(st0, C, ElementAddress(p, 1), currentCounter)
            st  == IF n = 1 THEN st1
                   ELSE ConstructObject(st1, C, ElementAddress(p, 2),
                                        currentCounter + 1)
        IN  /\ m_allocs' = st.allocs
            /\ trackedOut' = trackedOut \o st.out
            /\ currentCounter' = currentCounter + n
            /\ objects' = Append(objects, Object(C, currentCounter, n, TRUE))
            /\ history' = Append(history,
                                 Event("new[]", C, currentCounter, n, 0))
    /\ UNCHANGED <<ended, mainLen, freed, deleteCalls>>
    /\ UNCHANGED notTracked

\* lines 181-182 and 188-189: if(toDelete) free(p)
Free(p, toDelete) ==
    /\ freed' = IF toDelete THEN freed \cup {p} ELSE freed
    /\ deleteCalls' = Append(deleteCalls,
            [address |-> p,
             live |-> \E k \in 1..Len(m_allocs) :
                        m_allocs[k].address = p /\ ~m_allocs[k].deleted,
             toDelete |-> toDelete])

\* delete p: the destructors, then operator delete (lines 178-183)
DeleteExpr ==
    /\ Running
    /\ \E k \in 1..Len(objects) :
        /\ ~objects[k].array
        /\ ~objects[k].deleted
        /\ LET o == objects[k]
               d == delete_(m_allocs, m_allocs[k].address, classname(o.class))
           IN  /\ m_allocs' = d.allocs
               /\ Free(m_allocs[k].address, d.toDelete)
               /\ trackedOut' = trackedOut \o DestructorText(o.class, o.counter)
                                    \o d.out
                                    \o <<"d", "e", "l", "e", "t", "e", "(">> \o classname(o.class) \o <<")", " ">>
               /\ history' = Append(history,
                                    Event("delete", o.class, o.counter, 1, 0))
        /\ objects' = [objects EXCEPT ![k].deleted = TRUE]
    /\ UNCHANGED <<currentCounter, ended, mainLen>>
    /\ UNCHANGED notTracked

\* delete[] p: the destructors of the elements, last element first, then
\* operator delete[] (lines 185-190)
DeleteArrayExpr ==
    /\ Running
    /\ \E k \in 1..Len(objects) :
        /\ objects[k].array
        /\ ~objects[k].deleted
        /\ LET o == objects[k]
               d == delete_(m_allocs, m_allocs[k].address, classname(o.class))
           IN  /\ m_allocs' = d.allocs
               /\ Free(m_allocs[k].address, d.toDelete)
               /\ trackedOut' = trackedOut
                    \o (IF o.n = 2
                        THEN DestructorText(o.class, o.counter + 1) ELSE <<>>)
                    \o DestructorText(o.class, o.counter)
                    \o d.out
                    \o <<"d", "e", "l", "e", "t", "e", "[", "]", "(">> \o classname(o.class) \o <<")", " ">>
               /\ history' = Append(history,
                                    Event("delete[]", o.class, o.counter, o.n, 0))
        /\ objects' = [objects EXCEPT ![k].deleted = TRUE]
    /\ UNCHANGED <<currentCounter, ended, mainLen>>
    /\ UNCHANGED notTracked

\* operator delete or delete[] is handed a pointer it has had before; the
\* class whose operator runs is the one the dangling object still names
DeleteAgain ==
    /\ Running
    /\ \E k \in 1..Len(objects), C \in Classes :
        /\ objects[k].deleted
        /\ objects[k].class = "B" => C = "B"
        /\ LET d == delete_(m_allocs, m_allocs[k].address, classname(C))
           IN  /\ m_allocs' = d.allocs
               /\ Free(m_allocs[k].address, d.toDelete)
               /\ trackedOut' = trackedOut \o d.out
                    \o (IF objects[k].array THEN <<"d", "e", "l", "e", "t", "e", "[", "]", "(">> ELSE <<"d", "e", "l", "e", "t", "e", "(">>)
                    \o classname(C) \o <<")", " ">>
        /\ history' = Append(history,
                             Event("delete again", C, objects[k].counter, 1, 0))
    /\ UNCHANGED <<currentCounter, objects, ended, mainLen>>
    /\ UNCHANGED notTracked

\* delete p on a pointer that came from new C[n]: the first element is
\* destroyed and operator delete is handed the element's address, which
\* new_ never recorded
DeleteUnknown ==
    /\ Running
    /\ \E k \in 1..Len(objects) :
        /\ objects[k].array
        /\ ~objects[k].deleted
        /\ LET o == objects[k]
               p == ElementAddress(m_allocs[k].address, 1)
               d == delete_(m_allocs, p, classname(o.class))
           IN  /\ m_allocs' = d.allocs
               /\ Free(p, d.toDelete)
               /\ trackedOut' = trackedOut
                    \o DestructorText(o.class, o.counter)
                    \o d.out
                    \o <<"d", "e", "l", "e", "t", "e", "(">> \o classname(o.class) \o <<")", " ">>
               /\ history' = Append(history,
                        Event("delete unknown", o.class, o.counter, o.n, 0))
    /\ UNCHANGED <<currentCounter, objects, ended, mainLen>>
    /\ UNCHANGED notTracked

\* *q = *p on two live objects, p's class being q's or derived from it
CopyAssign ==
    /\ Running
    /\ \E q, p \in 1..Len(objects) :
        /\ ~objects[q].array /\ ~objects[p].array
        /\ ~objects[q].deleted /\ ~objects[p].deleted
        /\ objects[q].class = "D" => objects[p].class = "D"
        /\ trackedOut' = trackedOut
                \o CopyAssignText(objects[q].class, objects[p].counter,
                                  objects[q].counter)
        /\ history' = Append(history,
                Event("=", objects[q].class, objects[q].counter, 1,
                      objects[p].counter))
    /\ UNCHANGED <<currentCounter, m_allocs, objects, ended, mainLen, freed,
                   deleteCalls>>
    /\ UNCHANGED notTracked

\* the program ends: ~alloc_tracker (lines 46-58)
ProgramEnd ==
    /\ ~ended
    /\ ended' = TRUE
    /\ mainLen' = Len(trackedOut)
    /\ trackedOut' = trackedOut \o LeakLoop(m_allocs, 1, FALSE)
    /\ UNCHANGED <<currentCounter, m_allocs, objects, history, freed, deleteCalls>>
    /\ UNCHANGED notTracked

NextTracked ==
    \/ NewExpr
    \/ NewArrayExpr
    \/ DeleteExpr
    \/ DeleteArrayExpr
    \/ DeleteAgain
    \/ DeleteUnknown
    \/ CopyAssign
    \/ ProgramEnd

SpecTracked == InitTracked /\ [][NextTracked]_vars

\* ----------------------------------------------------------------- C19
\* what ~alloc_tracker wrote
LeakReport == SubSeq(trackedOut, mainLen + 1, Len(trackedOut))

LeakHeader == <<"l", "e", "a", "k", "e", "d", " ", "o", "b", "j", "e", "c", "t", "s", ":", " ">>

\* the addresses a text names, each between "(0x" and ")"
RECURSIVE ListedAddresses(_)
ListedAddresses(text) ==
    IF Len(text) < 3 THEN <<>>
    ELSE IF IsPrefix(<<"(", "0", "x">>, text)
    THEN LET rest  == SubSeq(text, 4, Len(text))
             close == CHOOSE i \in 1..Len(rest) :
                        /\ rest[i] = ")"
                        /\ \A j \in 1..(i - 1) : rest[j] # ")"
         IN  <<ParseNat(SubSeq(rest, 1, close - 1))>>
                \o ListedAddresses(SubSeq(rest, close + 1, Len(rest)))
    ELSE ListedAddresses(Tail(text))

\* the allocations the program made with new or new[] and never deleted
NeverDeleted == {k \in 1..Len(objects) : ~objects[k].deleted}

\* C19: at the end of the program the objects listed are exactly the
\* allocations made through a tracked operator new or new[] and never
\* deleted, each once, and "leaked objects: " is written if and only if
\* there is such an allocation
C19_LeakList ==
    ended =>
        LET listed == ListedAddresses(LeakReport)
        IN  /\ {listed[i] : i \in 1..Len(listed)}
                  = {m_allocs[k].address : k \in NeverDeleted}
            /\ Len(listed) = Cardinality(NeverDeleted)
            /\ IsPrefix(LeakHeader, LeakReport) <=> NeverDeleted # {}
            /\ NeverDeleted = {} => LeakReport = <<>>
            /\ CountOcc(trackedOut, LeakHeader)
                  = (IF NeverDeleted = {} THEN 0 ELSE 1)

\* two allocations, the first deleted and deleted again, the second, an
\* array, listed
C19_Witness ==
    /\ ended
    /\ Len(history) = 4
    /\ history[2].op = "new[]"
    /\ history[4].op = "delete again"
    /\ NeverDeleted = {2}
    /\ ListedAddresses(LeakReport) = <<128>>

\* ----------------------------------------------------------------- C20
\* what the program wrote before it ended
MainLog ==
    SubSeq(trackedOut, 1, IF ended THEN mainLen ELSE Len(trackedOut))

Named(C, n) == <<C>> \o IntText(n)

\* the events of one expression in lifecycle order
LifecycleLog(e) ==
    CASE e.op = "new" ->
            <<"n", "e", "w", "(">> \o <<e.class>> \o <<")", " ">>
                \o Named("B", e.counter) \o <<"(", ")", " ">>
                \o (IF e.class = "D"
                    THEN Named("D", e.counter) \o <<"(", ")", " ">> ELSE <<>>)
      [] e.op = "delete" ->
            (IF e.class = "D"
             THEN <<"~">> \o Named("D", e.counter) \o <<"(", ")", " ">> ELSE <<>>)
                \o <<"~">> \o Named("B", e.counter) \o <<"(", ")", " ">>
                \o <<"d", "e", "l", "e", "t", "e", "(">> \o <<e.class>> \o <<")", " ">>
      [] e.op = "=" ->
            Named(e.class, e.other) \o <<"=">> \o Named(e.class, e.counter)
                \o <<"(", "&", ")", " ">>

RECURSIVE LifecycleLogs(_)
LifecycleLogs(events) ==
    IF events = <<>> THEN <<>>
    ELSE LifecycleLog(Head(events)) \o LifecycleLogs(Tail(events))

\* new D; new B; *q = *p; delete p
DocumentedProgram ==
    <<Event("new", "D", 0, 1, 0), Event("new", "B", 1, 1, 0),
      Event("=", "B", 1, 1, 0), Event("delete", "D", 0, 1, 0)>>

DocumentedLog ==
    <<"n", "e", "w", "(", "D", ")", " ", "B", "0", "(", ")", " ", "D", "0", "(", ")", " ", "n", "e", "w", "(", "B", ")", " ", "B", "1", "(", ")", " ", "B", "0", "=", "B", "1", "(", "&", ")", " ", "~", "D", "0", "(", ")", " ", "~", "B", "0", "(", ")", " ", "d", "e", "l", "e", "t", "e", "(", "D", ")", " ">>

\* C20: the log follows the lifecycle: new C logs new(C), Bn() and, for a
\* D, Dn() with the same n; delete logs ~Dn() for a D, ~Bn(), delete(C); a
\* copy assignment logs the source's name and counter, "=", the target's;
\* the documented program logs the documented line and reports B1 as the
\* only leaked object
C20_LifecycleLog ==
    /\ (\A i \in 1..Len(history) : history[i].op \in {"new", "delete", "="})
          => MainLog = LifecycleLogs(history)
    /\ (history = DocumentedProgram /\ ended) =>
          /\ MainLog = DocumentedLog
          /\ LeakReport = LeakHeader \o <<"B", "1", "(", "0", "x">> \o AddressText(m_allocs[2].address) \o <<")", " ">>

C20_Witness ==
    /\ ended
    /\ history = DocumentedProgram
    /\ trackedOut = DocumentedLog \o <<"l", "e", "a", "k", "e", "d", " ", "o", "b", "j", "e", "c", "t", "s", ":", " ", "B", "1", "(", "0", "x", "1", "2", "8", ")", " ">>

\* ----------------------------------------------------------------- C21
\* C21: delete_ returns true exactly when the address belongs to an
\* allocation recorded by new_ and not yet marked deleted, so that the
\* memory handed to free is exactly that of the live allocations deleted;
\* it returns false, and nothing is freed, for an unknown address and for
\* a double delete
C21_DeleteReleasesLive ==
    /\ \A i \in 1..Len(deleteCalls) :
          deleteCalls[i].toDelete <=> deleteCalls[i].live
    /\ freed = {deleteCalls[i].address :
                    i \in {j \in 1..Len(deleteCalls) : deleteCalls[j].live}}

\* the half of C21 about addresses that are not live: no true, no free
C21_DeadNotFreed ==
    \A i \in 1..Len(deleteCalls) :
        ~deleteCalls[i].live =>
            /\ ~deleteCalls[i].toDelete
            /\ deleteCalls[i].address \notin freed

\* delete_ has been called on a live, on a deleted and on an unknown address
C21_AllBranches ==
    /\ \E i \in 1..Len(deleteCalls) : deleteCalls[i].live
    /\ \E i \in 1..Len(history) : history[i].op = "delete again"
    /\ \E i \in 1..Len(history) : history[i].op = "delete unknown"

====
